---- MODULE Spec2Model ----
(***************************************************************************)
(* A model of praw/models/reddit/subreddit.py: the Subreddit resource, its *)
(* flair view, its six relationship views and its moderation helper.       *)
(* Every method is one action; a generator function (__iter__) is three:   *)
(* the call that creates the generator object, the first next() that runs  *)
(* the body up to the first yield, and every later next().                 *)
(***************************************************************************)
EXTENDS Integers, Sequences, FiniteSets, Bags, TLC

\* the attribute, key and field names of the records below, in the order
\* every record lists them in
FieldNames ==
  [args |-> "args", b |-> "b", body |-> "body", call |-> "call",
   calls |-> "calls", counter |-> "counter", css_class |-> "css_class",
   d |-> "d", data |-> "data", display_name |-> "display_name",
   endpoint |-> "endpoint", error |-> "error", first |-> "first",
   fullname |-> "fullname", how |-> "how", id |-> "id", item |-> "item",
   kind |-> "kind", limit |-> "limit", link |-> "link", name |-> "name",
   none |-> "none", ok |-> "ok", op |-> "op", outcome |-> "outcome",
   params |-> "params", r |-> "r", redditor |-> "redditor",
   reply |-> "reply", resubmit |-> "resubmit", ret |-> "ret", s |-> "s",
   selftext |-> "selftext", send_replies |-> "send_replies",
   sendreplies |-> "sendreplies", spam |-> "spam", sr |-> "sr",
   state |-> "state", subreddit |-> "subreddit", t |-> "t", text |-> "text",
   thing |-> "thing", title |-> "title", type |-> "type",
   unique |-> "unique", url |-> "url", verb |-> "verb", view |-> "view"]

VARIABLES exists, display_name, path, unique_counter, gens, sent, last

vars == <<exists, display_name, path, unique_counter, gens, sent, last>>

(***************************************************************************)
(* Bounds of the model.                                                    *)
(***************************************************************************)
\* live generator objects at any one time
MaxGens == 2
\* iterations begun, over all the views of the Subreddit
MaxBegins == 2

(***************************************************************************)
(* Python values.                                                          *)
(***************************************************************************)
None == [t |-> "NoneType"]

\* an argument the caller left out: the parameter takes its default
Omitted == [t |-> "omitted"]

Str(s) == [s |-> s, t |-> "str"]

PyBool(b) == [b |-> b, t |-> "bool"]

Dict(d) == [d |-> d, t |-> "dict"]

Exception(name) == [name |-> name, t |-> "Exception"]

TypeError == Exception("TypeError")

\* a remote entity: its class name, its fullname and its string form
Thing(cls, fullname, name) == [fullname |-> fullname, name |-> name, t |-> cls]

\* Python's truth value of an object
bool(v) ==
  CASE v.t = "NoneType" -> FALSE
    [] v.t = "str" -> v.s # ""
    [] v.t = "bool" -> v.b
    [] v.t = "dict" -> DOMAIN v.d # {}
    [] OTHER -> TRUE

\* Python's str(): a string is itself, an entity prints as its name
str(v) == IF v.t = "str" THEN v.s ELSE v.name

\* parameter binding: an omitted keyword argument takes the default
Bind(arg, default) == IF arg = Omitted THEN default ELSE arg

\* dict.update / keyword construction: entries of e are added to or replace d's
update(d, e) ==
  [k \in DOMAIN d \cup DOMAIN e |-> IF k \in DOMAIN e THEN e[k] ELSE d[k]]

(***************************************************************************)
(* Collaborators: the path table and the transport.                        *)
(***************************************************************************)
\* the template stored under a symbolic endpoint name
API_PATH(key) == [endpoint |-> key]

\* template.format(subreddit=s)
format(template, s) == [endpoint |-> template.endpoint, subreddit |-> s]

TransportError == Exception("TransportError")

NoReply == [none |-> TRUE, ok |-> TRUE]

\* what reddit.post can do with a request: decode a body, or fail
PostReplies == {[body |-> Str("json"), ok |-> TRUE], [error |-> TransportError, ok |-> FALSE]}

\* what a listing does when asked for its next item: produce one, end, or fail
ListingReplies ==
  {[item |-> TRUE, ok |-> TRUE], [item |-> FALSE, ok |-> TRUE],
   [error |-> TransportError, ok |-> FALSE]}

\* the for loop over a listing under reply r: yield, fall off the end, or raise
Loop(r) == IF ~r.ok THEN "raise" ELSE IF r.item THEN "yield" ELSE "stop"

\* the outcome of a method that raised before reaching the transport
Raise(err) == [calls |-> <<>>, outcome |-> "raise", reply |-> NoReply, ret |-> err]

\* reddit.post(url, data=data) under reply r: one request, its body or its error
post(url, data, r) ==
  [calls |-> <<[data |-> data, url |-> url, verb |-> "POST"]>>,
   outcome |-> IF r.ok THEN "return" ELSE "raise",
   reply |-> r,
   ret |-> IF r.ok THEN r.body ELSE r.error]

\* a call statement whose value is dropped: the method falls off its end
Statement(e) == IF e.outcome = "return" THEN [e EXCEPT !.ret = None] ELSE e

\* the record of the operation that ran last
Record(op, args, e) ==
  [args |-> args, calls |-> e.calls, op |-> op, outcome |-> e.outcome,
   reply |-> e.reply, ret |-> e.ret]

(***************************************************************************)
(* Subreddit.                                                              *)
(***************************************************************************)
Relationships ==
  <<"banned", "contributor", "moderator", "muted", "wikibanned", "wikicontributor">>

RelationshipNames == {Relationships[i] : i \in DOMAIN Relationships}

Views == {"flair"} \cup RelationshipNames

\* mutant: only the display name is looked at
InitRaises_name_only(name, data) == ~bool(name)

\* the guard of __init__: raise unless exactly one argument is truthy
InitRaises(name, data) == bool(name) = bool(data)

\* RedditBase.__init__ copies the bundle's attributes onto the object
RedditBaseInit(data) == IF bool(data) THEN data.d ELSE <<>>

\* the display_name attribute after __init__
InitDisplayName(name, data) ==
  IF bool(name) THEN name.s ELSE RedditBaseInit(data).display_name

\* _prepare_relationships and SubredditFlair.__init__: every counter at 0
PrepareCounters == [v \in Views |-> 0]

\* the data of submit
SubmitData(self, title, selftext, url, resubmit, send_replies) ==
  LET data == [resubmit |-> bool(resubmit), sendreplies |-> bool(send_replies),
               sr |-> self, title |-> title]
  IN IF selftext # None
     THEN update(data, [kind |-> "self", text |-> selftext])
     ELSE update(data, [kind |-> "link", url |-> url])

submit(self, title, selftext_, url_, resubmit_, send_replies_, r) ==
  LET selftext == Bind(selftext_, None)
      url == Bind(url_, None)
      resubmit == Bind(resubmit_, PyBool(TRUE))
      send_replies == Bind(send_replies_, PyBool(TRUE))
  IN IF bool(selftext) = bool(url)
     THEN Raise(TypeError)
     ELSE post(API_PATH("submit"),
               SubmitData(self, title, selftext, url, resubmit, send_replies), r)

(***************************************************************************)
(* SubredditFlair.                                                         *)
(***************************************************************************)
\* mutant: the target's class is not looked at
FlairData_name_always(thing, text, css_class) ==
  update([css_class |-> css_class, text |-> text], [name |-> str(thing)])

\* the data of flair.set: link for a Submission, name for anything else
FlairData(thing, text, css_class) ==
  LET data == [css_class |-> css_class, text |-> text]
  IN IF thing.t = "Submission"
     THEN update(data, [link |-> thing.fullname])
     ELSE update(data, [name |-> str(thing)])

SubredditFlair_set(self, thing, text_, css_class_, r) ==
  LET text == Bind(text_, Str(""))
      css_class == Bind(css_class_, Str(""))
  IN Statement(post(format(API_PATH("flair"), self),
                    FlairData(thing, text, css_class), r))

\* mutant: the counter is incremented before it is read
SubredditFlair_iter_preincrement(self, counter) ==
  [call |-> [limit |-> None, params |-> [unique |-> counter + 1],
             url |-> format(API_PATH("flairlist"), self), verb |-> "ListingGenerator"],
   counter |-> counter + 1]

\* the body of __iter__ up to its loop: the request it builds from the
\* counter, and the counter it leaves behind
SubredditFlair_iter(self, counter) ==
  [call |-> [limit |-> None, params |-> [unique |-> counter],
             url |-> format(API_PATH("flairlist"), self), verb |-> "ListingGenerator"],
   counter |-> counter + 1]

(***************************************************************************)
(* SubredditModeration.                                                    *)
(***************************************************************************)
\* mutant: a failure of the transport is caught and dropped
approve_swallows(thing, r) ==
  [post(API_PATH("approve"), [id |-> thing.fullname], r) EXCEPT !.outcome = "return", !.ret = None]

approve(thing, r) ==
  Statement(post(API_PATH("approve"), [id |-> thing.fullname], r))

distinguish(thing, how_, r) ==
  LET how == Bind(how_, Str("yes"))
  IN post(API_PATH("distinguish"), [how |-> how, id |-> thing.fullname], r)

ignore_reports(thing, r) ==
  Statement(post(API_PATH("ignore_reports"), [id |-> thing.fullname], r))

remove(thing, spam_, r) ==
  LET spam == Bind(spam_, PyBool(FALSE))
  IN Statement(post(API_PATH("remove"),
                    [id |-> thing.fullname, spam |-> bool(spam)], r))

\* mutant: how is left at its default
undistinguish_default(thing, r) == distinguish(thing, Omitted, r)

undistinguish(thing, r) == distinguish(thing, Str("no"), r)

unignore_reports(thing, r) ==
  Statement(post(API_PATH("unignore_reports"), [id |-> thing.fullname], r))

(***************************************************************************)
(* SubredditRelationship.                                                  *)
(***************************************************************************)
\* mutant: the counter is never incremented
SubredditRelationship_iter_no_increment(relationship, self, counter) ==
  [call |-> [params |-> [unique |-> counter], url |-> format(API_PATH(relationship), self),
             verb |-> "GET"],
   counter |-> counter]

\* the body of __iter__ up to its loop
SubredditRelationship_iter(relationship, self, counter) ==
  [call |-> [params |-> [unique |-> counter], url |-> format(API_PATH(relationship), self),
             verb |-> "GET"],
   counter |-> counter + 1]

RelationshipData(relationship, self, redditor) ==
  [name |-> str(redditor), r |-> self, type |-> relationship]

add(relationship, self, redditor, r) ==
  post(API_PATH("friend"), RelationshipData(relationship, self, redditor), r)

SubredditRelationship_remove(relationship, self, redditor, r) ==
  post(API_PATH("unfriend"), RelationshipData(relationship, self, redditor), r)

(***************************************************************************)
(* State machine.                                                          *)
(***************************************************************************)
NameArgs == {Omitted, Str(""), Str("a")}

DataArgs == {Omitted, Dict(<<>>), Dict([display_name |-> "a"])}

Titles == {Str("title")}

TextArgs == {Omitted, Str(""), Str("body")}

UrlArgs == {Omitted, Str(""), Str("http://u")}

ResubmitArgs == {Omitted, PyBool(FALSE)}

SendRepliesArgs == {Omitted, Str("")}

Init ==
  /\ exists = FALSE
  /\ display_name = ""
  /\ path = None
  /\ unique_counter = PrepareCounters
  /\ gens = EmptyBag
  /\ sent = [v \in Views |-> <<>>]
  /\ last = Record("none", <<>>, Raise(None))

\* Subreddit(reddit, display_name, _data)
Subreddit_init(name_, data_) ==
  LET name == Bind(name_, None)
      data == Bind(data_, None)
      args == [data |-> data_, display_name |-> name_]
  IN /\ ~exists
     /\ IF InitRaises(name, data)
        THEN /\ last' = Record("Subreddit", args, Raise(TypeError))
             /\ UNCHANGED <<exists, display_name, path, unique_counter>>
        ELSE /\ exists' = TRUE
             /\ display_name' = InitDisplayName(name, data)
             /\ path' = format(API_PATH("subreddit"), display_name')
             /\ unique_counter' = PrepareCounters
             /\ last' = Record("Subreddit", args,
                               [calls |-> <<>>, outcome |-> "return", reply |-> NoReply,
                                ret |-> None])
     /\ UNCHANGED <<gens, sent>>

CallSubmit(title, selftext, url, resubmit, send_replies, r) ==
  /\ exists
  /\ last' = Record("submit",
                    [resubmit |-> resubmit, selftext |-> selftext, send_replies |-> send_replies,
                     title |-> title, url |-> url],
                    submit(display_name, title, selftext, url, resubmit, send_replies, r))
  /\ UNCHANGED <<exists, display_name, path, unique_counter, gens, sent>>

Things ==
  {Thing("Submission", "t3_s", "s"), Thing("Comment", "t1_c", "c"),
   Thing("Redditor", "t2_r", "bob"), Str("alice")}

\* what the moderation methods are given: a Comment or a Submission
ModThings == {x \in Things : x.t \in {"Submission", "Comment"}}

Redditors == {x \in Things : x.t \in {"Redditor", "str"}}

FlairTexts == {Omitted, Str("mod")}

CssClasses == {Omitted}

Hows == {Omitted, Str("yes"), Str("no")}

Spams == {Omitted, PyBool(TRUE), Str("")}

\* a method that only builds a request and forwards it
Forward(op, args, e) ==
  /\ exists
  /\ last' = Record(op, args, e)
  /\ UNCHANGED <<exists, display_name, path, unique_counter, gens, sent>>

CallFlairSet(thing, text, css_class, r) ==
  Forward("flair.set", [css_class |-> css_class, text |-> text, thing |-> thing],
          SubredditFlair_set(display_name, thing, text, css_class, r))

CallApprove(thing, r) ==
  Forward("approve", [thing |-> thing], approve(thing, r))

CallDistinguish(thing, how, r) ==
  Forward("distinguish", [how |-> how, thing |-> thing], distinguish(thing, how, r))

CallIgnoreReports(thing, r) ==
  Forward("ignore_reports", [thing |-> thing], ignore_reports(thing, r))

CallRemove(thing, spam, r) ==
  Forward("remove", [spam |-> spam, thing |-> thing], remove(thing, spam, r))

CallUndistinguish(thing, r) ==
  Forward("undistinguish", [thing |-> thing], undistinguish(thing, r))

CallUnignoreReports(thing, r) ==
  Forward("unignore_reports", [thing |-> thing], unignore_reports(thing, r))

\* mutant: add also bumps the view's counter, to bust the cache of its listing
CallAdd_bumps(relationship, redditor, r) ==
  /\ exists
  /\ last' = Record("add", [redditor |-> redditor, view |-> relationship],
                    add(relationship, display_name, redditor, r))
  /\ unique_counter' = [unique_counter EXCEPT ![relationship] = @ + 1]
  /\ UNCHANGED <<exists, display_name, path, gens, sent>>

CallAdd(relationship, redditor, r) ==
  Forward("add", [redditor |-> redditor, view |-> relationship],
          add(relationship, display_name, redditor, r))

CallRelationshipRemove(relationship, redditor, r) ==
  Forward("relationship.remove", [redditor |-> redditor, view |-> relationship],
          SubredditRelationship_remove(relationship, display_name, redditor, r))

(***************************************************************************)
(* Generators.  Calling __iter__ only creates the generator object; its    *)
(* body runs when next() is first called on it.                            *)
(***************************************************************************)
Generator(view, state) == [state |-> state, view |-> view]

One(g) == SetToBag({g})

RECURSIVE Sum(_, _)
Sum(f, S) == IF S = {} THEN 0 ELSE LET x == CHOOSE x \in S : TRUE IN f[x] + Sum(f, S \ {x})

\* mutant: __iter__ is no generator, the request goes out as iter() is called
Iter_eager(view) ==
  LET b == IF view = "flair"
           THEN SubredditFlair_iter(display_name, unique_counter[view])
           ELSE SubredditRelationship_iter(view, display_name, unique_counter[view])
  IN /\ exists
     /\ BagCardinality(gens) < MaxGens
     /\ Sum(unique_counter, Views) < MaxBegins
     /\ unique_counter' = [unique_counter EXCEPT ![view] = b.counter]
     /\ sent' = [sent EXCEPT ![view] = Append(@, b.call.params.unique)]
     /\ gens' = gens (+) One(Generator(view, "running"))
     /\ last' = Record("iter", [view |-> view],
                       [calls |-> <<b.call>>, outcome |-> "return", reply |-> [item |-> TRUE, ok |-> TRUE],
                        ret |-> None])
     /\ UNCHANGED <<exists, display_name, path>>

\* iter(view): a generator object, nothing run yet
Iter(view) ==
  /\ exists
  /\ BagCardinality(gens) < MaxGens
  /\ gens' = gens (+) One(Generator(view, "created"))
  /\ last' = Record("iter", [view |-> view],
                    [calls |-> <<>>, outcome |-> "return", reply |-> NoReply, ret |-> None])
  /\ UNCHANGED <<exists, display_name, path, unique_counter, sent>>

\* the first next() of a generator: the body of __iter__ runs to its first
\* yield, to the end of an empty listing, or to the collaborator's error
Begin(view, r) ==
  LET g == Generator(view, "created")
      b == IF view = "flair"
           THEN SubredditFlair_iter(display_name, unique_counter[view])
           ELSE SubredditRelationship_iter(view, display_name, unique_counter[view])
  IN /\ exists
     /\ BagIn(g, gens)
     /\ Sum(unique_counter, Views) < MaxBegins
     /\ unique_counter' = [unique_counter EXCEPT ![view] = b.counter]
     /\ sent' = [sent EXCEPT ![view] = Append(@, b.call.params.unique)]
     /\ gens' = IF Loop(r) = "yield"
                THEN (gens (-) One(g)) (+) One(Generator(view, "running"))
                ELSE gens (-) One(g)
     /\ last' = Record("next", [first |-> TRUE, view |-> view],
                       [calls |-> <<b.call>>, outcome |-> Loop(r),
                        reply |-> r, ret |-> IF r.ok THEN None ELSE r.error])
     /\ UNCHANGED <<exists, display_name, path>>

\* a later next(): the loop yields the next item, ends, or the listing fails
Resume(view, r) ==
  LET g == Generator(view, "running")
  IN /\ exists
     /\ BagIn(g, gens)
     /\ gens' = IF Loop(r) = "yield" THEN gens ELSE gens (-) One(g)
     /\ last' = Record("next", [first |-> FALSE, view |-> view],
                       [calls |-> <<>>, outcome |-> Loop(r),
                        reply |-> r, ret |-> IF r.ok THEN None ELSE r.error])
     /\ UNCHANGED <<exists, display_name, path, unique_counter, sent>>

\* close() or garbage collection of a generator that was not exhausted
Close(g) ==
  /\ exists
  /\ BagIn(g, gens)
  /\ gens' = gens (-) One(g)
  /\ last' = Record("close", [view |-> g.view],
                    [calls |-> <<>>, outcome |-> "return", reply |-> NoReply, ret |-> None])
  /\ UNCHANGED <<exists, display_name, path, unique_counter, sent>>

(***************************************************************************)
(* Spec: construction and the request-building methods, over every         *)
(* combination of their arguments.                                         *)
(***************************************************************************)
Construct == \E name \in NameArgs, data \in DataArgs : Subreddit_init(name, data)

Next ==
  \/ Construct
  \/ \E title \in Titles, selftext \in TextArgs, url \in UrlArgs,
        resubmit \in ResubmitArgs, send_replies \in SendRepliesArgs, r \in PostReplies :
       CallSubmit(title, selftext, url, resubmit, send_replies, r)
  \/ \E thing \in Things, text \in FlairTexts, css_class \in CssClasses, r \in PostReplies :
       CallFlairSet(thing, text, css_class, r)
  \/ \E thing \in ModThings, r \in PostReplies : CallApprove(thing, r)
  \/ \E thing \in ModThings, how \in Hows, r \in PostReplies : CallDistinguish(thing, how, r)
  \/ \E thing \in ModThings, r \in PostReplies : CallIgnoreReports(thing, r)
  \/ \E thing \in ModThings, spam \in Spams, r \in PostReplies : CallRemove(thing, spam, r)
  \/ \E thing \in ModThings, r \in PostReplies : CallUndistinguish(thing, r)
  \/ \E thing \in ModThings, r \in PostReplies : CallUnignoreReports(thing, r)
  \/ \E relationship \in RelationshipNames, redditor \in Redditors, r \in PostReplies :
       CallAdd(relationship, redditor, r)
  \/ \E relationship \in RelationshipNames, redditor \in Redditors, r \in PostReplies :
       CallRelationshipRemove(relationship, redditor, r)

Spec == Init /\ [][Next]_vars

(***************************************************************************)
(* SpecViews: the same methods, one call of each with either reply of the  *)
(* transport, interleaved with iterations of the views.                    *)
(***************************************************************************)
\* the views the iterating caller uses: the flair view and two relationships
IteratedViews == {"flair", "banned", "moderator"}

aSubmission == Thing("Submission", "t3_s", "s")

aRedditor == Thing("Redditor", "t2_r", "bob")

NextViews ==
  \/ Construct
  \/ \E url \in {Omitted, Str("http://u")}, r \in PostReplies :
       CallSubmit(Str("title"), Omitted, url, Omitted, Omitted, r)
  \/ \E r \in PostReplies : CallFlairSet(aRedditor, Omitted, Omitted, r)
  \/ \E r \in PostReplies : CallApprove(aSubmission, r)
  \/ \E r \in PostReplies : CallDistinguish(aSubmission, Omitted, r)
  \/ \E r \in PostReplies : CallIgnoreReports(aSubmission, r)
  \/ \E r \in PostReplies : CallRemove(aSubmission, Omitted, r)
  \/ \E r \in PostReplies : CallUndistinguish(aSubmission, r)
  \/ \E r \in PostReplies : CallUnignoreReports(aSubmission, r)
  \/ \E relationship \in IteratedViews \ {"flair"}, r \in PostReplies :
       CallAdd(relationship, aRedditor, r)
  \/ \E relationship \in IteratedViews \ {"flair"}, r \in PostReplies :
       CallRelationshipRemove(relationship, aRedditor, r)
  \/ \E view \in IteratedViews : Iter(view)
  \/ \E view \in IteratedViews, r \in ListingReplies : Begin(view, r)
  \/ \E view \in IteratedViews, r \in ListingReplies : Resume(view, r)
  \/ \E g \in BagToSet(gens) : Close(g)

SpecViews == Init /\ [][NextViews]_vars

(***************************************************************************)
(* SpecIter: a caller that only iterates, over all seven views.            *)
(***************************************************************************)
NextIter ==
  \/ Construct
  \/ \E view \in Views : Iter(view)
  \/ \E view \in Views, r \in ListingReplies : Begin(view, r)
  \/ \E view \in Views, r \in ListingReplies : Resume(view, r)
  \/ \E g \in BagToSet(gens) : Close(g)

SpecIter == Init /\ [][NextIter]_vars

(***************************************************************************)
(* Properties.                                                             *)
(***************************************************************************)
MethodOps ==
  {"submit", "flair.set", "approve", "distinguish", "ignore_reports", "remove",
   "undistinguish", "unignore_reports", "add", "relationship.remove"}

\* an argument was passed, and was not None
IsGiven(arg) == Bind(arg, None) # None

RaisedTypeError == last.outcome = "raise" /\ last.ret = TypeError /\ last.calls = <<>>

\* C1: on every view, the unique values sent by its iterations start at 0 and
\* strictly increase, and no step ever lowers a view's counter.
C1_UniqueStartsAtZeroAndIncreases ==
  /\ [](\A v \in Views :
          /\ sent[v] # <<>> => sent[v][1] = 0
          /\ \A i, j \in DOMAIN sent[v] : i < j => sent[v][i] < sent[v][j])
  /\ [][\A v \in Views : unique_counter'[v] >= unique_counter[v]]_vars

\* a view iterated twice, the second request having just gone out
C1_Witness ==
  /\ last.op = "next" /\ last.args.first
  /\ Len(sent[last.args.view]) = 2

\* C2: submit with both selftext and url given, or with neither, raises
\* TypeError without any request; a request goes out only when exactly one of
\* the two was given.
C2_SubmitRejectsBothOrNeither ==
  last.op = "submit" =>
    LET same == IsGiven(last.args.selftext) = IsGiven(last.args.url)
    IN /\ same => RaisedTypeError
       /\ last.calls # <<>> => ~same

\* C3 as stated: construction with both arguments supplied, or with neither,
\* raises TypeError, whatever the supplied values are.
C3_RejectsBothOrNeitherSupplied ==
  last.op = "Subreddit" =>
    (IsGiven(last.args.display_name) = IsGiven(last.args.data) => RaisedTypeError)

\* C3 amended: construction raises TypeError exactly when the truth values of
\* display_name and _data agree (None, the empty string and the empty bundle
\* all count as not supplied); otherwise it succeeds and no object exists
\* after a failure.
C3_RejectsByTruthValue ==
  last.op = "Subreddit" =>
    IF bool(Bind(last.args.display_name, None)) = bool(Bind(last.args.data, None))
    THEN RaisedTypeError /\ ~exists
    ELSE last.outcome = "return" /\ exists /\ display_name = "a"

\* an empty display name beside a bundle: both supplied, and constructed
C3_Witness ==
  /\ last.op = "Subreddit"
  /\ last.args.display_name = Str("")
  /\ last.args.data = Dict([display_name |-> "a"])
  /\ last.outcome = "return"

\* C4: the request of submit carries exactly one of text and url, the one the
\* caller provided, with kind 'self' or 'link' to match, beside sr, resubmit,
\* sendreplies and title; submit returns the transport's response.
C4_SubmitPayloadIsWhatWasProvided ==
  (last.op = "submit" /\ last.calls # <<>>) =>
    LET a == last.args
        d == last.calls[1].data
        common == {"sr", "resubmit", "sendreplies", "title", "kind"}
    IN /\ Len(last.calls) = 1
       /\ last.calls[1].verb = "POST"
       /\ last.calls[1].url = API_PATH("submit")
       /\ bool(Bind(a.url, None)) =>
            /\ DOMAIN d = common \cup {"url"}
            /\ d.kind = "link"
            /\ d.url = a.url
       /\ bool(Bind(a.selftext, None)) =>
            /\ DOMAIN d = common \cup {"text"}
            /\ d.kind = "self"
            /\ d.text = a.selftext
       /\ d.sr = display_name
       /\ d.resubmit = bool(Bind(a.resubmit, PyBool(TRUE)))
       /\ d.sendreplies = bool(Bind(a.send_replies, PyBool(TRUE)))
       /\ d.title = a.title
       /\ last.reply.ok => (last.outcome = "return" /\ last.ret = last.reply.body)

\* C5: flair.set sends one POST whose data has css_class, text and exactly one
\* of link and name: link = fullname for a Submission, name = str(thing) for
\* anything else.
C5_FlairSetLinkOrName ==
  last.op = "flair.set" =>
    LET a == last.args
        d == last.calls[1].data
    IN /\ Len(last.calls) = 1
       /\ last.calls[1].verb = "POST"
       /\ d.css_class = Bind(a.css_class, Str(""))
       /\ d.text = Bind(a.text, Str(""))
       /\ IF a.thing.t = "Submission"
          THEN DOMAIN d = {"css_class", "text", "link"} /\ d.link = a.thing.fullname
          ELSE /\ DOMAIN d = {"css_class", "text", "name"}
               /\ d.name = (IF a.thing.t = "str" THEN a.thing.s ELSE a.thing.name)

\* flair set on a Submission
C5_Witness == last.op = "flair.set" /\ last.args.thing.t = "Submission"

\* C6: an operation makes at most one call of its collaborator, exactly one
\* unless it raised TypeError on its arguments, and when the collaborator
\* fails the operation raises that same error.
C6_OneCallErrorPropagates ==
  LET n == Len(last.calls)
  IN /\ n <= 1
     /\ last.op \in MethodOps => (n = 1 \/ (last.op = "submit" /\ RaisedTypeError))
     /\ (last.op = "next" /\ last.args.first) => n = 1
     /\ n = 1 => last.reply # NoReply
     /\ ~last.reply.ok => (last.outcome = "raise" /\ last.ret = last.reply.error)

\* a moderation action whose POST failed
C6_Witness == last.op = "approve" /\ ~last.reply.ok /\ last.outcome = "raise"

\* C7: construction, creating an iterator and closing one send nothing; the
\* first next() of every iterator sends exactly one request, that view's,
\* with the counter's value before the step; a later next() sends nothing.
C7_ListingsAreLazy ==
  /\ last.op \in {"Subreddit", "iter", "close"} => last.calls = <<>>
  /\ last.op = "next" =>
       IF last.args.first
       THEN LET v == last.args.view
                c == last.calls[1]
            IN /\ Len(last.calls) = 1
               /\ c.verb = (IF v = "flair" THEN "ListingGenerator" ELSE "GET")
               /\ c.url = [endpoint |-> (IF v = "flair" THEN "flairlist" ELSE v),
                           subreddit |-> display_name]
               /\ c.params = [unique |-> unique_counter[v] - 1]
       ELSE last.calls = <<>>

\* a second iteration of a view sends its own request while another
\* iterator, created earlier, has sent nothing yet
C7_Witness ==
  /\ last.op = "next" /\ last.args.first
  /\ unique_counter[last.args.view] = 2
  /\ \E g \in BagToSet(gens) : g.state = "created" /\ g.view = last.args.view

\* C8: a step of submit, flair.set, a moderation action or relationship
\* add/remove leaves the path, the display name and all seven counters as
\* they were; once constructed, the only step that changes any of them is the
\* first next() of an iterator, and it changes that view's counter alone.
C8_ActionsLeaveLocalState ==
  [][/\ last'.op \in MethodOps => UNCHANGED <<display_name, path, unique_counter>>
     /\ (exists /\ <<display_name, path, unique_counter>>' # <<display_name, path, unique_counter>>) =>
          /\ last'.op = "next" /\ last'.args.first
          /\ UNCHANGED <<display_name, path>>
          /\ \A v \in Views \ {last'.args.view} : unique_counter'[v] = unique_counter[v]]_vars

\* a relationship add whose POST failed, after two views were iterated
C8_Witness ==
  /\ last.op = "add" /\ ~last.reply.ok
  /\ unique_counter["banned"] = 1 /\ unique_counter["flair"] = 1

\* C9: undistinguish sends the one request of distinguish with how='no',
\* {how: 'no', id: fullname} to the distinguish endpoint, and returns its
\* response; distinguish without how sends how='yes'.
C9_UndistinguishIsDistinguishNo ==
  LET no == <<[data |-> [how |-> Str("no"), id |-> last.args.thing.fullname], url |-> API_PATH("distinguish"),
               verb |-> "POST"]>>
      returned == IF last.reply.ok
                  THEN last.outcome = "return" /\ last.ret = last.reply.body
                  ELSE last.outcome = "raise" /\ last.ret = last.reply.error
  IN /\ last.op = "undistinguish" => (last.calls = no /\ returned)
     /\ (last.op = "distinguish" /\ last.args.how = Str("no")) => (last.calls = no /\ returned)
     /\ (last.op = "distinguish" /\ last.args.how = Omitted) =>
          (Len(last.calls) = 1 /\ last.calls[1].data.how = Str("yes"))

\* undistinguish answered by the transport
C9_Witness == last.op = "undistinguish" /\ last.outcome = "return"

\* C10: on every view the k-th iteration to begin sent unique = k-1 and the
\* counter is the number of iterations begun; a step changes the counter of
\* no view but the one whose iteration begins.
C10_KthIterationSendsKMinusOne ==
  /\ [](\A v \in Views :
          /\ Len(sent[v]) = unique_counter[v]
          /\ \A k \in DOMAIN sent[v] : sent[v][k] = k - 1)
  /\ [][\A v \in Views :
          unique_counter'[v] # unique_counter[v] =>
            (last'.op = "next" /\ last'.args.first /\ last'.args.view = v)]_vars

\* the second iteration of a view began, and failed, while the first was
\* still running
C10_Witness ==
  /\ last.op = "next" /\ last.args.first /\ last.args.view = "wikicontributor"
  /\ last.outcome = "raise"
  /\ sent["wikicontributor"] = <<0, 1>>
  /\ BagIn(Generator("wikicontributor", "running"), gens)
====
